---- MODULE Spec2Model ----
(***************************************************************************)
(* Validation entry points (src/src/validation.rs), the animation channel  *)
(* reader (src/src/animation/mod.rs) and the skin reader (src/src/skin.rs) *)
(* of the gltf crate, as one state machine over one imported document.     *)
(***************************************************************************)
EXTENDS Integers, Sequences, FiniteSets, TLC

\* Number of records in each of the document's tables (nodes, accessors,
\* buffer views): valid indices are 0 .. MaxIndex-1, and MaxIndex itself is the
\* out-of-range index a malformed document may hold.
MaxIndex == 2

\* Longest joint-index list of a skin.
MaxJoints == 2

VARIABLES
    json,       \* the parsed document (json::Root), never modified
    resolves,   \* whether get_buffer_data returns Some for the buffer
    handle,     \* what the caller holds: "Unvalidated", "Gltf" or "Dropped"
    result,     \* outcome of the latest skip_validation / validate_* call
    prev,       \* outcome of the call before it
    ret,        \* outcome of the latest reader call
    iter,       \* the Joints iterator: None, or Some(remaining joint indices)
    yielded     \* the nodes the Joints iterator has yielded so far

vars == <<json, resolves, handle, result, prev, ret, iter, yielded>>

----------------------------------------------------------------------------
\* Option<T>
None == <<>>

Some(x) == <<x>>

\* Index values a reference of the document may hold.
Idx == 0 .. MaxIndex

\* The rows of a table: document.nodes(), document.accessors(), ...
Table == 0 .. (MaxIndex - 1)

\* animation::Property
Property == {"Translation", "Rotation", "Scale", "MorphTargetWeights"}

\* accessor::DataType: the five types read_outputs matches by name, and U32,
\* the type its `_` arm stands for.
DataType == {"I8", "U8", "I16", "U16", "U32", "F32"}

\* Sequences over S of length at most n.
SeqUpTo(S, n) == UNION {[1 .. k -> S] : k \in 0 .. n}

----------------------------------------------------------------------------
\* json::Path: Path::new(), .field(name), .index(i)
PathNew == <<>>

PathField(path, name) == Append(path, name)

PathIndex(path, i) == Append(path, ToString(i))

\* Index<T>::validate_minimally: an index that does not resolve in its table
\* is reported at the path of the reference.
IndexReports(path, index) ==
    IF index \in Table THEN <<>>
    ELSE << [path |-> path, err |-> "IndexOutOfBounds"] >>

\* Every accessor of the table is validated in turn; the accessors of the
\* document share one record, so they share its bufferView reference.
RECURSIVE AccessorsReports(_, _)
AccessorsReports(d, k) ==
    IF k \notin Table THEN <<>>
    ELSE IndexReports(PathField(PathIndex(PathField(PathNew, "accessors"), k),
                                "bufferView"), d.bufferView)
         \o AccessorsReports(d, k + 1)

RECURSIVE JointsReports(_, _, _)
JointsReports(path, joints, k) ==
    IF k > Len(joints) THEN <<>>
    ELSE IndexReports(PathIndex(path, k - 1), joints[k])
         \o JointsReports(path, joints, k + 1)

\* Root::validate_minimally: the report calls the minimal traversal makes, in
\* traversal order (accessors, then animations, then skins).
MinimalReports(d) ==
    LET samp == PathIndex(PathField(PathIndex(PathField(PathNew, "animations"), 0),
                                    "samplers"), 0)
        skin == PathIndex(PathField(PathNew, "skins"), 0)
    IN  AccessorsReports(d, 0)
        \o IndexReports(PathField(samp, "input"), d.input)
        \o IndexReports(PathField(samp, "output"), d.output)
        \o (IF d.inverse_bind_matrices = None THEN <<>>
            ELSE IndexReports(PathField(skin, "inverseBindMatrices"),
                              d.inverse_bind_matrices[1]))
        \o JointsReports(PathField(skin, "joints"), d.joints, 1)

\* Root::validate_completely: the report calls of the conformance traversal.
CompleteReports(d) ==
    IF d.sparse
    THEN << [path |-> PathField(PathField(PathIndex(PathField(PathNew, "accessors"), 0),
                                          "sparse"), "count"),
             err  |-> "Invalid"] >>
    ELSE <<>>

----------------------------------------------------------------------------
\* let mut errs = vec![];  -- but what a stale list would be: the previous
\* call's errors.
NewErrsStale == result.errs

\* let mut errs = vec![];
NewErrs == <<>>

\* The closure dropping every report after the first.
ReportFailFast(errs, call) ==
    IF errs = <<>> THEN Append(errs, <<call.path, call.err>>) ELSE errs

\* &mut |path, err| errs.push((path(), err))
Report(errs, call) == Append(errs, <<call.path, call.err>>)

\* A traversal drives the closure once per report call, in order.
RECURSIVE RunPass(_, _)
RunPass(errs, calls) ==
    IF calls = <<>> THEN errs
    ELSE RunPass(Report(errs, Head(calls)), Tail(calls))

\* Ok whatever the list holds.
OutcomeAlwaysOk(call, d, errs) ==
    [call |-> call, tag |-> "Ok", gltf |-> Some(d), errs |-> <<>>]

\* if errs.is_empty() { Ok(self.0) } else { Err(Error { errs }) }
Outcome(call, d, errs) ==
    IF errs = <<>>
    THEN [call |-> call, tag |-> "Ok", gltf |-> Some(d), errs |-> <<>>]
    ELSE [call |-> call, tag |-> "Err", gltf |-> None, errs |-> errs]

\* validate_minimally returning before its traversal has run.
MinimalErrsUnchecked(d) == NewErrs

\* The body of validate_minimally.
MinimalErrs(d) == RunPass(NewErrs, MinimalReports(d))

\* validate_completely without its minimal traversal.
CompleteErrsOnlyConformance(d) == RunPass(NewErrs, CompleteReports(d))

\* The body of validate_completely: both traversals push into one list.
CompleteErrs(d) == RunPass(RunPass(NewErrs, MinimalReports(d)), CompleteReports(d))

NoCall == [call |-> "none", tag |-> "none", gltf |-> None, errs |-> <<>>]

Idle == [op |-> "none", kind |-> "Idle", variant |-> "", tag |-> None, item |-> None]

Panicked == ret.kind = "Panic"

\* The readers borrow the document: giving it up ends them.
ReadersReset == ret' = Idle /\ iter' = None /\ yielded' = <<>>

\* Unvalidated::skip_validation
SkipValidation ==
    /\ handle = "Unvalidated"
    /\ handle' = "Gltf"
    /\ prev' = result
    /\ result' = [call |-> "skip_validation", tag |-> "Ok", gltf |-> Some(json),
                  errs |-> <<>>]
    /\ UNCHANGED <<json, resolves, ret, iter, yielded>>

\* Unvalidated::validate_minimally
ValidateMinimally ==
    /\ handle = "Unvalidated"
    /\ LET r == Outcome("validate_minimally", json, MinimalErrs(json))
       IN  /\ result' = r
           /\ handle' = IF r.tag = "Ok" THEN "Gltf" ELSE "Dropped"
    /\ prev' = result
    /\ UNCHANGED <<json, resolves, ret, iter, yielded>>

\* Unvalidated::validate_completely
ValidateCompletely ==
    /\ handle = "Unvalidated"
    /\ LET r == Outcome("validate_completely", json, CompleteErrs(json))
       IN  /\ result' = r
           /\ handle' = IF r.tag = "Ok" THEN "Gltf" ELSE "Dropped"
    /\ prev' = result
    /\ UNCHANGED <<json, resolves, ret, iter, yielded>>

\* The caller imports the same, unmodified asset again: a new Unvalidated.
Reimport ==
    /\ handle \in {"Gltf", "Dropped"}
    /\ ~Panicked
    /\ handle' = "Unvalidated"
    /\ ReadersReset
    /\ UNCHANGED <<json, resolves, result, prev>>

----------------------------------------------------------------------------
\* Outcomes of a reader call.
RetSome(op, variant, tag, item) ==
    [op |-> op, kind |-> "Some", variant |-> variant, tag |-> tag, item |-> Some(item)]

RetNone(op) == [op |-> op, kind |-> "None", variant |-> "", tag |-> None, item |-> None]

\* A panic: Option::unwrap() on None ("unwrap"), or unreachable!().
RetPanic(op, why) ==
    [op |-> op, kind |-> "Panic", variant |-> why, tag |-> None, item |-> None]

\* document.nodes().nth(i)
NodesNth(i) == IF i \in Table THEN Some(i) ELSE None

\* document.accessors().nth(i)
AccessorsNth(i) == IF i \in Table THEN Some(i) ELSE None

\* accessor.view(): the accessor's buffer view resolves, or the lookup panics.
ViewResolves(d) == d.bufferView \in Table

\* (self.get_buffer_data)(accessor.view().buffer())
GetBufferData(r) == IF r THEN Some("slice") ELSE None

\* Sampler::input
SamplerInput(d) == AccessorsNth(d.input)

\* Sampler::output
SamplerOutput(d) == AccessorsNth(d.output)

\* Reader::read_inputs
ReadInputs(d, r) ==
    LET op == "read_inputs"
        input == SamplerInput(d)
    IN  IF input = None \/ ~ViewResolves(d) THEN RetPanic(op, "unwrap")
        ELSE IF GetBufferData(r) # None
             THEN RetSome(op, "ReadInputs", None, input[1])
             ELSE RetNone(op)

\* The match with the arms of two component types exchanged.
TaggedByDataTypeSwapped(op, variant, data_type, output) ==
    IF data_type \in {"I8", "U8", "I16", "U16", "F32"}
    THEN RetSome(op, variant,
                 Some(CASE data_type = "I8" -> "U8"
                        [] data_type = "U8" -> "I8"
                        [] OTHER -> data_type), output)
    ELSE RetPanic(op, "unreachable")

\* match output.data_type() { I8 => ..., U8 => ..., I16 => ..., U16 => ...,
\*                            F32 => ..., _ => unreachable!() }
TaggedByDataType(op, variant, data_type, output) ==
    IF data_type \in {"I8", "U8", "I16", "U16", "F32"}
    THEN RetSome(op, variant, Some(data_type), output)
    ELSE RetPanic(op, "unreachable")

\* match self.channel.target().property() { ... }
OutputsByProperty(op, property, data_type, output) ==
    CASE property = "Translation" -> RetSome(op, "Translations", None, output)
      [] property = "Rotation" -> TaggedByDataType(op, "Rotations", data_type, output)
      [] property = "Scale" -> RetSome(op, "Scales", None, output)
      [] property = "MorphTargetWeights" ->
             TaggedByDataType(op, "MorphTargetWeights", data_type, output)

\* read_outputs running its match before it asks the resolver.
ReadOutputsMatchFirst(d, r) ==
    LET op == "read_outputs"
        output == SamplerOutput(d)
    IN  IF output = None \/ ~ViewResolves(d) THEN RetPanic(op, "unwrap")
        ELSE LET matched == OutputsByProperty(op, d.property, d.data_type, output[1])
             IN  IF matched.kind = "Panic" \/ GetBufferData(r) # None THEN matched
                 ELSE RetNone(op)

\* Reader::read_outputs
ReadOutputs(d, r) ==
    LET op == "read_outputs"
        output == SamplerOutput(d)
    IN  IF output = None \/ ~ViewResolves(d) THEN RetPanic(op, "unwrap")
        ELSE IF GetBufferData(r) # None
             THEN OutputsByProperty(op, d.property, d.data_type, output[1])
             ELSE RetNone(op)

\* Skin::inverse_bind_matrices
InverseBindMatrices(d) ==
    LET op == "inverse_bind_matrices"
    IN  IF d.inverse_bind_matrices = None THEN RetNone(op)
        ELSE LET accessor == AccessorsNth(d.inverse_bind_matrices[1])
             IN  IF accessor = None THEN RetPanic(op, "unwrap")
                 ELSE RetSome(op, "Accessor", None, accessor[1])

\* read_inverse_bind_matrices building the iterator without a slice.
ReadInverseBindMatricesNoSlice(d, r) ==
    LET op == "read_inverse_bind_matrices"
    IN  IF d.inverse_bind_matrices = None THEN RetNone(op)
        ELSE IF d.inverse_bind_matrices[1] \in Table /\ d.bufferView \in Table
             THEN RetSome(op, "ReadInverseBindMatrices", None, d.inverse_bind_matrices[1])
             ELSE RetPanic(op, "unwrap")

\* Reader::read_inverse_bind_matrices
ReadInverseBindMatrices(d, r) ==
    LET op == "read_inverse_bind_matrices"
        accessor == InverseBindMatrices(d)
    IN  IF accessor.kind = "Panic" THEN RetPanic(op, "unwrap")
        ELSE IF accessor.kind = "Some"
             THEN IF ~ViewResolves(d) THEN RetPanic(op, "unwrap")
                  ELSE IF GetBufferData(r) # None
                       THEN RetSome(op, "ReadInverseBindMatrices", None, accessor.item[1])
                       ELSE RetNone(op)
             ELSE RetNone(op)

\* Joints::next as a filter_map: a dangling index is skipped.
RECURSIVE JointsNextSkipping(_)
JointsNextSkipping(rest) ==
    IF rest = <<>> THEN <<rest, [op |-> "Joints::next", kind |-> "None", variant |-> "",
                                 tag |-> <<>>, item |-> <<>>]>>
    ELSE IF Head(rest) \in 0 .. (MaxIndex - 1)
         THEN <<Tail(rest), [op |-> "Joints::next", kind |-> "Some", variant |-> "Node",
                             tag |-> <<>>, item |-> <<Head(rest)>>]>>
         ELSE JointsNextSkipping(Tail(rest))

\* Joints::next on the remaining indices: <<iterator after, outcome>>.
JointsNext(rest) ==
    LET op == "Joints::next"
    IN  IF rest = <<>> THEN <<rest, RetNone(op)>>
        ELSE LET node == NodesNth(Head(rest))
             IN  IF node = None THEN <<Tail(rest), RetPanic(op, "unwrap")>>
                 ELSE <<Tail(rest), RetSome(op, "Node", None, node[1])>>

\* A reader exists only on a Gltf, and nothing runs after a panic.
CanRead == handle = "Gltf" /\ ~Panicked

CallReadInputs ==
    /\ CanRead
    /\ ret' = ReadInputs(json, resolves)
    /\ UNCHANGED <<json, resolves, handle, result, prev, iter, yielded>>

CallReadOutputs ==
    /\ CanRead
    /\ ret' = ReadOutputs(json, resolves)
    /\ UNCHANGED <<json, resolves, handle, result, prev, iter, yielded>>

CallInverseBindMatrices ==
    /\ CanRead
    /\ ret' = InverseBindMatrices(json)
    /\ UNCHANGED <<json, resolves, handle, result, prev, iter, yielded>>

CallReadInverseBindMatrices ==
    /\ CanRead
    /\ ret' = ReadInverseBindMatrices(json, resolves)
    /\ UNCHANGED <<json, resolves, handle, result, prev, iter, yielded>>

\* Skin::joints
CallJoints ==
    /\ CanRead
    /\ iter' = Some(json.joints)
    /\ yielded' = <<>>
    /\ ret' = [op |-> "joints", kind |-> "Some", variant |-> "Joints", tag |-> None,
               item |-> None]
    /\ UNCHANGED <<json, resolves, handle, result, prev>>

CallJointsNext ==
    /\ CanRead
    /\ iter # None
    /\ LET step == JointsNext(iter[1])
       IN  /\ iter' = Some(step[1])
           /\ ret' = step[2]
           /\ yielded' = IF step[2].kind = "Some"
                         THEN Append(yielded, step[2].item[1]) ELSE yielded
    /\ UNCHANGED <<json, resolves, handle, result, prev>>

----------------------------------------------------------------------------
\* A reference that resolves and, last, the one that dangles.
RefChoices == {0, MaxIndex}

\* A well-formed document; the families below vary some of its fields.
ValidDoc ==
    [bufferView |-> 0, input |-> 0, output |-> 0, inverse_bind_matrices |-> None,
     joints |-> <<>>, sparse |-> FALSE, property |-> "Translation", data_type |-> "F32"]

\* The documents of the validation runs: every reference may dangle.
ValidationDocs ==
    [bufferView : RefChoices, input : RefChoices, output : RefChoices,
     inverse_bind_matrices : {None} \cup {Some(i) : i \in RefChoices},
     joints : SeqUpTo(Idx, MaxJoints), sparse : BOOLEAN,
     property : {ValidDoc.property}, data_type : {ValidDoc.data_type}]

\* The documents of the animation reader runs: one channel, any target
\* property, any component type, any sampler references.
AnimationDocs ==
    [bufferView : {ValidDoc.bufferView}, input : Idx, output : Idx,
     inverse_bind_matrices : {ValidDoc.inverse_bind_matrices},
     joints : {ValidDoc.joints}, sparse : {ValidDoc.sparse},
     property : Property, data_type : DataType]

\* The documents of the skin reader runs: one skin, any joint list, with or
\* without inverse bind matrices.
SkinDocs ==
    [bufferView : {ValidDoc.bufferView}, input : {ValidDoc.input},
     output : {ValidDoc.output},
     inverse_bind_matrices : {None} \cup {Some(i) : i \in Idx},
     joints : SeqUpTo(Idx, MaxJoints), sparse : {ValidDoc.sparse},
     property : {ValidDoc.property}, data_type : {ValidDoc.data_type}]

InitCommon ==
    /\ handle = "Unvalidated"
    /\ result = NoCall
    /\ prev = NoCall
    /\ ret = Idle
    /\ iter = None
    /\ yielded = <<>>

InitValidation ==
    /\ json \in ValidationDocs
    /\ resolves = TRUE
    /\ InitCommon

InitAnimation ==
    /\ json \in AnimationDocs
    /\ resolves \in BOOLEAN
    /\ InitCommon

InitSkin ==
    /\ json \in SkinDocs
    /\ resolves \in BOOLEAN
    /\ InitCommon

Next ==
    \/ SkipValidation
    \/ ValidateMinimally
    \/ ValidateCompletely
    \/ Reimport
    \/ CallReadInputs
    \/ CallReadOutputs
    \/ CallInverseBindMatrices
    \/ CallReadInverseBindMatrices
    \/ CallJoints
    \/ CallJointsNext

SpecValidation == InitValidation /\ [][Next]_vars

SpecAnimation == InitAnimation /\ [][Next]_vars

SpecSkin == InitSkin /\ [][Next]_vars

----------------------------------------------------------------------------
\* Helpers of the properties below.
Passes == {"validate_minimally", "validate_completely"}

FiveTypes == {"I8", "U8", "I16", "U16", "F32"}

\* What the traversals of a call report, as (path, violation) pairs in order.
Reported(call) ==
    LET calls == IF call = "validate_minimally" THEN MinimalReports(json)
                 ELSE MinimalReports(json) \o CompleteReports(json)
    IN  [i \in 1 .. Len(calls) |-> <<calls[i].path, calls[i].err>>]

\* The paths of the references of the document that dangle.
Dangling(d) ==
    (IF d.bufferView \in Table THEN {}
     ELSE {<<"accessors", ToString(k), "bufferView">> : k \in Table})
    \cup (IF d.input \in Table THEN {}
          ELSE {<<"animations", "0", "samplers", "0", "input">>})
    \cup (IF d.output \in Table THEN {}
          ELSE {<<"animations", "0", "samplers", "0", "output">>})
    \cup (IF d.inverse_bind_matrices = None \/ d.inverse_bind_matrices \in {Some(i) : i \in Table}
          THEN {}
          ELSE {<<"skins", "0", "inverseBindMatrices">>})
    \cup {<<"skins", "0", "joints", ToString(k - 1)>> :
            k \in {j \in 1 .. Len(d.joints) : d.joints[j] \notin Table}}

\* C1: validate_minimally and validate_completely are all-or-nothing: the
\* call returns Ok with the document exactly when its traversals reported
\* nothing, and otherwise Err with the complete, non-empty list and no
\* document; the caller holds a Gltf only after an Ok.
C1_AllOrNothing ==
    result.call \in Passes =>
        /\ (result.tag = "Ok") <=> (Reported(result.call) = <<>>)
        /\ result.tag \in {"Ok", "Err"}
        /\ result.tag = "Ok" => result.gltf = Some(json) /\ result.errs = <<>>
        /\ result.tag = "Err" =>
               /\ result.gltf = None
               /\ result.errs # <<>>
               /\ Len(result.errs) = Len(Reported(result.call))
        /\ handle = "Gltf" => result.tag = "Ok"
        /\ handle = "Dropped" => result.tag = "Err"

C1_Witness ==
    /\ result.call = "validate_completely"
    /\ result.tag = "Err"
    /\ Len(result.errs) >= 2
    /\ handle = "Dropped"

\* C2: error collection is exhaustive: the list a pass returns holds every
\* reported (path, violation) pair once, in report order, each with the path
\* it was reported at; the reports after the first are not dropped.
C2_Exhaustive ==
    result.call \in Passes /\ Len(Reported(result.call)) >= 1 =>
        /\ result.tag = "Err"
        /\ result.errs = Reported(result.call)

C2_Witness ==
    /\ result.call = "validate_minimally"
    /\ Len(result.errs) >= 3
    /\ \A i, j \in 1 .. Len(result.errs) : i # j => result.errs[i] # result.errs[j]

C4_CompleteIncludesMinimal ==
    \A m, c \in {prev, result} :
        m.call = "validate_minimally" /\ c.call = "validate_completely" =>
            /\ Len(m.errs) <= Len(c.errs)
            /\ SubSeq(c.errs, 1, Len(m.errs)) = m.errs
            /\ \A i \in (Len(m.errs) + 1) .. Len(c.errs) :
                   /\ \A j \in 1 .. Len(m.errs) : m.errs[j] # c.errs[i]
                   /\ c.errs[i][2] # "IndexOutOfBounds"
            /\ m.tag = "Err" => c.tag = "Err"
            /\ c.tag = "Ok" => m.tag = "Ok"

C4_Witness ==
    /\ prev.call = "validate_minimally"
    /\ result.call = "validate_completely"
    /\ Len(prev.errs) >= 2
    /\ Len(result.errs) > Len(prev.errs)

\* C5: when the resolver returns no bytes for the buffer of an accessor that
\* resolves, read_inputs and read_outputs return None, whatever the target
\* property and the component type; when it returns bytes and the component
\* type is legal for the property they return Some.
C5_ResolverMiss ==
    /\ ret.op = "read_inputs" /\ json.input \in Table /\ json.bufferView \in Table =>
           ret.kind = (IF resolves THEN "Some" ELSE "None")
    /\ ret.op = "read_outputs" /\ json.output \in Table /\ json.bufferView \in Table =>
           /\ ~resolves => ret.kind = "None"
           /\ resolves /\ (json.property \in {"Rotation", "MorphTargetWeights"}
                              => json.data_type \in FiveTypes) => ret.kind = "Some"

C5_Witness ==
    /\ ret.op = "read_outputs"
    /\ ~resolves
    /\ json.property = "Rotation"
    /\ json.data_type = "U32"
    /\ ret.kind = "None"

\* The variant read_outputs is to return for each target property.
VariantOf ==
    [p \in Property |->
        CASE p = "Translation" -> "Translations"
          [] p = "Rotation" -> "Rotations"
          [] p = "Scale" -> "Scales"
          [] p = "MorphTargetWeights" -> "MorphTargetWeights"]

\* C6: when the resolver supplies bytes, read_outputs returns the variant its
\* target property fixes, over the output accessor: Translations and Scales
\* untagged whatever the component type, Rotations and MorphTargetWeights
\* tagged with exactly the accessor's component type, one of the five.
C6_Dispatch ==
    ret.op = "read_outputs" /\ ret.kind = "Some" =>
        /\ resolves
        /\ ret.variant = VariantOf[json.property]
        /\ ret.item = Some(json.output)
        /\ IF json.property \in {"Rotation", "MorphTargetWeights"}
           THEN ret.tag = Some(json.data_type) /\ json.data_type \in FiveTypes
           ELSE ret.tag = None

C6_Witness ==
    /\ ret.op = "read_outputs"
    /\ ret.kind = "Some"
    /\ json.property = "Rotation"
    /\ json.data_type = "I8"
    /\ ret.variant = "Rotations"
    /\ ret.tag = Some("I8")

\* C7: for a Rotation or MorphTargetWeights channel whose output accessor has
\* a component type outside the five, read_outputs with bytes at hand hands
\* the caller a value (an explicit error), it does not panic.
C7_ExplicitError ==
    /\ ret.op = "read_outputs"
    /\ resolves
    /\ json.output \in Table
    /\ json.property \in {"Rotation", "MorphTargetWeights"}
    /\ json.data_type \notin FiveTypes
    => ret.kind # "Panic"

\* The same skin without its inverse-bind-matrices accessor.
WithoutAccessor(d) == [d EXCEPT !.inverse_bind_matrices = None]

\* A skin whose inverse-bind-matrices accessor exists and the resolver misses.
ResolverMiss ==
    /\ json.inverse_bind_matrices # None
    /\ json.inverse_bind_matrices[1] \in Table
    /\ ~resolves

\* C8 as stated: the result of read_inverse_bind_matrices on a resolver miss
\* differs from its result for the skin without the accessor.
C8_ResultsDiffer ==
    ret.op = "read_inverse_bind_matrices" /\ ResolverMiss =>
        ret # ReadInverseBindMatrices(WithoutAccessor(json), resolves)

\* C8 as amended: read_inverse_bind_matrices returns a sequence exactly when
\* the accessor exists and the resolver returns its bytes, and None both for
\* a skin without the accessor and for a resolver miss; it is
\* Skin::inverse_bind_matrices that tells the two apart, None for the first
\* and Some for the second.
C8_SameNoneAccessorTellsApart ==
    /\ ret.op = "read_inverse_bind_matrices" =>
           /\ (ret.kind = "Some") <=>
                  /\ json.inverse_bind_matrices # None
                  /\ json.inverse_bind_matrices[1] \in Table
                  /\ ViewResolves(json)
                  /\ resolves
           /\ ret.kind = "Some" => ret.item = json.inverse_bind_matrices
           /\ json.inverse_bind_matrices = None => ret.kind = "None"
           /\ ResolverMiss => ret.kind = "None"
    /\ ret.op = "inverse_bind_matrices" =>
           /\ json.inverse_bind_matrices = None => ret.kind = "None"
           /\ ResolverMiss => ret.kind = "Some" /\ ret.item = json.inverse_bind_matrices

C8_Witness ==
    /\ ret.op = "read_inverse_bind_matrices"
    /\ ResolverMiss
    /\ ret.kind = "None"

JointsPanicked == ret.op = "Joints::next" /\ ret.kind = "Panic"

\* C10: the Joints iterator yields, in list order, the node at each index of
\* the skin's joint list, one per entry, and then ends; an index outside the
\* node table is fatal at the step that reaches it, after the items before it
\* were yielded; no entry is skipped or replaced.
C10_JointsInOrder ==
    iter # None =>
        LET consumed == Len(json.joints) - Len(iter[1])
        IN  /\ iter[1] = SubSeq(json.joints, consumed + 1, Len(json.joints))
            /\ Len(yielded) = IF JointsPanicked THEN consumed - 1 ELSE consumed
            /\ \A k \in 1 .. Len(yielded) :
                   json.joints[k] \in Table /\ yielded[k] = json.joints[k]
            /\ JointsPanicked => json.joints[consumed] \notin Table
            /\ ret.op = "Joints::next" /\ ret.kind = "Some" =>
                   consumed >= 1 /\ ret.item = Some(json.joints[consumed])
            /\ ret.op = "Joints::next" /\ ret.kind = "None" =>
                   iter[1] = <<>> /\ Len(yielded) = Len(json.joints)

C10_Witness ==
    /\ iter # None
    /\ JointsPanicked
    /\ Len(yielded) >= 1
    /\ iter[1] = <<>>

====
